---- MODULE Spec2Model ----
(***************************************************************************)
(* CourtLedger: the case search of the CourtSearch page (handleSearch),    *)
(* the REST client it calls (courtApi.getCaseDetails / submitCaseQuery),   *)
(* the "recentSearches" list it keeps in localStorage, and the case_queries*)
(* table of the backend that answers the two requests.                     *)
(*                                                                         *)
(* Strings that the program formats or inspects (caseType, caseNumber,     *)
(* year, the canonical case number) are sequences of one-character         *)
(* strings, so that the template literal of handleSearch is a real         *)
(* concatenation.  Opaque strings (court names, toast titles) are strings. *)
(***************************************************************************)
EXTENDS Naturals, Sequences, FiniteSets, TLC

(* ------------------------------ bounds -------------------------------- *)

\* handleSearch invocations that pass the field check, over all tabs
MaxSearches == 2
\* largest value Date.now() returns in a run (the clock starts at 0)
MaxClock == 1
\* the year new Date().getFullYear() returns
CurrentYear == 2026
\* searches started in a behaviour that fills the recent-search list
MaxRecorded == 11
\* refresh calls of the cause-list service in a behaviour
MaxRefreshes == 2

(* ----------------------------- constants ------------------------------ *)

\* Array.from({ length: 10 }, ...) of the year <Select>
YearSpan == 10
\* recentSearches.slice(0, 10)
RecentCap == 10
\* const API_TIMEOUT = parseInt(import.meta.env.VITE_API_TIMEOUT || '10000')
API_TIMEOUT == 10000
\* limit: 50 of the cause-list request
CauseLimit == 50

\* two mounted CourtSearch components (two tabs of one browser)
Tabs == {"tabA", "tabB"}
TheTab == "tabA"

(* ------------------------------ strings ------------------------------- *)

Digit(d) == CASE d = 0 -> "0" [] d = 1 -> "1" [] d = 2 -> "2" [] d = 3 -> "3"
              [] d = 4 -> "4" [] d = 5 -> "5" [] d = 6 -> "6" [] d = 7 -> "7"
              [] d = 8 -> "8" [] d = 9 -> "9"

\* Number.prototype.toString() of a non-negative integer
RECURSIVE toString(_)
toString(n) == IF n < 10 THEN <<Digit(n)>>
               ELSE toString(n \div 10) \o <<Digit(n % 10)>>

\* the <SelectItem value=...> codes of the case type <Select>
CaseTypeOptions == { <<"C","S">>, <<"C","R","L">>, <<"W","P">>, <<"C","C">>,
                     <<"M","A">>, <<"P","I","L">> }

\* the <SelectItem value=...> of the year <Select>
YearOptions == { toString(CurrentYear - i) : i \in 0..(YearSpan - 1) }

\* the <SelectItem value=...> of the court <Select>
CourtOptions == { "High Court of Delhi", "Supreme Court of India",
                  "District Court Delhi", "High Court of Bombay",
                  "High Court of Madras" }

\* the choices and the typed text a run of the model makes in the form
InputCaseTypes == { <<"W","P">> }
InputCaseNumbers == { <<>>, <<"5","6">>, <<" ">> }
InputYears == { toString(CurrentYear) }
InputCourts == { "High Court of Delhi", "Supreme Court of India" }
\* the case numbers typed in the run with two tabs
SharedCaseNumbers == { <<"5","6">> }

\* useState({ caseType: "", caseNumber: "", year: "", courtName: ... })
InitialFormData == [caseType |-> <<>>, caseNumber |-> <<>>, year |-> <<>>,
                    courtName |-> "High Court of Delhi"]

\* a key built from every field of the form, the court included
fullCaseNumber_WithCourt(fd) ==
  fd.caseType \o <<" ">> \o fd.caseNumber \o <<"/">> \o fd.year
    \o <<" ">> \o <<fd.courtName>>

\* a key that leaves the year out
fullCaseNumber_NoYear(fd) == fd.caseType \o <<" ">> \o fd.caseNumber

\* const fullCaseNumber = `${caseType} ${caseNumber}/${year}`
fullCaseNumber(fd) == fd.caseType \o <<" ">> \o fd.caseNumber \o <<"/">> \o fd.year

\* !formData.caseType || !formData.caseNumber || !formData.year
MissingInformation(fd) == fd.caseType = <<>> \/ fd.caseNumber = <<>> \/ fd.year = <<>>

(* ------------------------------- state -------------------------------- *)

VARIABLES
  formData,     \* [tab -> the form state of the component]
  loading,      \* [tab -> BOOLEAN]
  error,        \* [tab -> "null" or the message shown]
  caseDetails,  \* [tab -> Null or the CaseQuery shown]
  toast,        \* [tab -> title of the last toast, "none" at first]
  pc,           \* [tab -> where the running handleSearch is suspended]
  closure,      \* [tab -> formData and fullCaseNumber the running call captured]
  calls,        \* [tab -> the courtApi calls of the latest handleSearch, in order]
  net,          \* [tab -> the HTTP request of the tab in flight, or NoReq]
  upserts,      \* [tab -> rows the store wrote for the latest handleSearch]
  store,        \* the case_queries table: a sequence of rows
  recentSearches, \* localStorage["recentSearches"], parsed
  now,          \* the last value Date.now() returned
  started,      \* handleSearch calls that passed the field check
  \* the RecentSearches page (route /court/recent)
  pageMounted,        \* BOOLEAN: the page is mounted and its effect has run
  pageRecentSearches, \* the recentSearches state of the page component
  pageToast,          \* title of the last toast of the page, "none" at first
  location,           \* the last navigate(path, {state}) of the page, or Null
  \* the CauseList page (route /court/cause-list) and the cause-list table
  causeFormData,      \* the form state of the CauseList component
  causeLoading,       \* BOOLEAN
  causeError,         \* "null" or the message shown
  causeListData,      \* the rows last received
  causeToast,         \* title of the last toast of CauseList, "none" at first
  causeNet,           \* the cause-list request in flight, or NoReq
  causeTable,         \* the cause-list table of the backend: a sequence of rows
  refreshes,          \* the refresh calls served: what was asked, listed, written
  \* the Integrations page (route /court/integrations)
  integrations,       \* [service -> [connected, loading]]: the state of the page
  timers,             \* [service -> NoTimer or the timer handleConnect has set]
  integrationToast,   \* <<title, service>> of the last toast of the page
  \* the navigation bar
  pathname,           \* location.pathname as useLocation() gives it
  isOpen              \* BOOLEAN: the mobile menu is open

pageVars == <<pageMounted, pageRecentSearches, pageToast, location>>

causeVars == <<causeFormData, causeLoading, causeError, causeListData,
               causeToast, causeNet, causeTable, refreshes>>

shellVars == <<integrations, timers, integrationToast, pathname, isOpen>>

vars == <<formData, loading, error, caseDetails, toast, pc, closure, calls,
          net, upserts, store, recentSearches, now, started, pageVars, causeVars,
          shellVars>>

Null == [null |-> TRUE]

\* the keys of the integrations state
Services == { "googleDrive", "googleCalendar", "n8n" }

\* useState({ googleDrive: { connected: false, loading: false }, ... })
InitialIntegrations == [s \in Services |-> [connected |-> FALSE, loading |-> FALSE]]

NoTimer == [pending |-> FALSE]

\* href of the Home item and of the logo
HomePath == <<"/">>
NoReq == [method |-> "none"]
NoClosure == [formData |-> InitialFormData, fullCaseNumber |-> <<>>]

\* new Date().toISOString().split('T')[0] on the day the page is opened
Today == "2026-11-03"

\* useState({ courtType: "High Court of Delhi", date: today, caseNumber: "" })
InitialCauseFormData ==
  [courtType |-> "High Court of Delhi", date |-> Today, caseNumber |-> <<>>]

\* const params = { court_name: formData.courtType, date: formData.date, limit: 50 }
CauseParams(fd) == [court_name |-> fd.courtType, date |-> fd.date, limit |-> CauseLimit]

\* apiClient.get<CauseListEntry[]>('/api/court/cause-list', { params })
getCauseList(params) ==
  [method |-> "GET", path |-> "/api/court/cause-list", params |-> params,
   state |-> "pending", response |-> <<>>, error |-> ""]

\* The CourtSearch components are mounted and untouched, the RecentSearches
\* page is not open yet, and the CauseList page has been mounted: its effect
\* has called handleSearch, which is waiting for the first listing.
Init ==
  /\ formData = [t \in Tabs |-> InitialFormData]
  /\ loading = [t \in Tabs |-> FALSE]
  /\ error = [t \in Tabs |-> "null"]
  /\ caseDetails = [t \in Tabs |-> Null]
  /\ toast = [t \in Tabs |-> "none"]
  /\ pc = [t \in Tabs |-> "idle"]
  /\ closure = [t \in Tabs |-> NoClosure]
  /\ calls = [t \in Tabs |-> <<>>]
  /\ net = [t \in Tabs |-> NoReq]
  /\ upserts = [t \in Tabs |-> 0]
  /\ store = <<>>
  /\ recentSearches = <<>>
  /\ now = 0
  /\ started = 0
  /\ pageMounted = FALSE
  /\ pageRecentSearches = <<>>
  /\ pageToast = "none"
  /\ location = Null
  /\ causeFormData = InitialCauseFormData
  /\ causeLoading = TRUE
  /\ causeError = "null"
  /\ causeListData = <<>>
  /\ causeToast = "none"
  /\ causeNet = getCauseList(CauseParams(InitialCauseFormData))
  /\ causeTable = <<>>
  /\ refreshes = <<>>
  /\ integrations = InitialIntegrations
  /\ timers = [s \in Services |-> NoTimer]
  /\ integrationToast = <<"none", "none">>
  /\ pathname = HomePath
  /\ isOpen = FALSE

(* --------------------------- form handlers ---------------------------- *)

\* onValueChange={(value) => setFormData({ ...formData, caseType: value })}
SetCaseType(t, v) ==
  /\ formData[t].caseType # v
  /\ formData' = [formData EXCEPT ![t].caseType = v]
  /\ UNCHANGED <<loading, error, caseDetails, toast, pc, closure, calls, net,
                 upserts, store, recentSearches, now, started,
                 pageVars, causeVars,
                 shellVars>>

\* onChange={(e) => setFormData({ ...formData, caseNumber: e.target.value })}
SetCaseNumber(t, v) ==
  /\ formData[t].caseNumber # v
  /\ formData' = [formData EXCEPT ![t].caseNumber = v]
  /\ UNCHANGED <<loading, error, caseDetails, toast, pc, closure, calls, net,
                 upserts, store, recentSearches, now, started,
                 pageVars, causeVars,
                 shellVars>>

\* onValueChange={(value) => setFormData({ ...formData, year: value })}
SetYear(t, v) ==
  /\ formData[t].year # v
  /\ formData' = [formData EXCEPT ![t].year = v]
  /\ UNCHANGED <<loading, error, caseDetails, toast, pc, closure, calls, net,
                 upserts, store, recentSearches, now, started,
                 pageVars, causeVars,
                 shellVars>>

\* onValueChange={(value) => setFormData({ ...formData, courtName: value })}
SetCourtName(t, v) ==
  /\ formData[t].courtName # v
  /\ formData' = [formData EXCEPT ![t].courtName = v]
  /\ UNCHANGED <<loading, error, caseDetails, toast, pc, closure, calls, net,
                 upserts, store, recentSearches, now, started,
                 pageVars, causeVars,
                 shellVars>>

(* ------------------------------ courtApi ------------------------------ *)

\* apiClient.get<CaseQuery>(`/api/court/query/${caseNumber}`)
getCaseDetails(caseNumber) ==
  [method |-> "GET", path |-> "/api/court/query/", param |-> caseNumber,
   data |-> Null, state |-> "pending", response |-> Null]

\* apiClient.post<CaseQuery>('/api/court/query', data)
submitCaseQuery(data) ==
  [method |-> "POST", path |-> "/api/court/query", param |-> <<>>,
   data |-> data, state |-> "pending", response |-> Null]

\* one entry of the call log of a handleSearch invocation
Call(api, arg) == [api |-> api, arg |-> arg, state |-> "pending", result |-> Null]

Settle(log, st, res) ==
  [log EXCEPT ![Len(log)].state = st, ![Len(log)].result = res]

\* error.response?.data?.detail || error.message || "Failed to search case"
ErrorText(e) == IF e.detail # "" THEN e.detail
                ELSE IF e.message # "" THEN e.message
                ELSE "Failed to search case"

(* ----------------------- the case_queries table ----------------------- *)

Rows(key) == { i \in 1..Len(store) : store[i].case_number = key }

\* findByCanonicalKey(key) -> CaseRecord | absent
findByCanonicalKey(key) == store[CHOOSE i \in Rows(key) : \A j \in Rows(key) : i <= j]

\* upsertByCanonicalKey(key, record): overwrite the row of the key, or add one
upsertByCanonicalKey(key, record) ==
  IF Rows(key) = {} THEN Append(store, record)
  ELSE [i \in 1..Len(store) |-> IF store[i].case_number = key THEN record ELSE store[i]]

\* GET case-by-identifier: 200 with the CaseRecord, or not found
ServerGetCase(t) ==
  /\ net[t].method = "GET"
  /\ net[t].state = "pending"
  /\ net' = [net EXCEPT ![t] =
       IF Rows(net[t].param) # {}
       THEN [net[t] EXCEPT !.state = "resolved",
                           !.response = findByCanonicalKey(net[t].param)]
       ELSE [net[t] EXCEPT !.state = "rejected",
                           !.response = [status |-> 404, detail |-> "Case not found",
                                         message |-> "Request failed with status code 404"]]]
  /\ UNCHANGED <<formData, loading, error, caseDetails, toast, pc, closure,
                 calls, upserts, store, recentSearches, now, started,
                 pageVars, causeVars,
                 shellVars>>

\* POST submit-case-query: the adapter fetches the case, the outcome (found or
\* not) is upserted by canonical key and returned
ServerSubmitCase(t, ok) ==
  /\ net[t].method = "POST"
  /\ net[t].state = "pending"
  /\ LET record == [case_number |-> net[t].data.case_number,
                    court_name |-> net[t].data.court_name,
                    success |-> ok,
                    error_message |-> IF ok THEN "" ELSE "Case not found"]
     IN /\ store' = upsertByCanonicalKey(record.case_number, record)
        /\ net' = [net EXCEPT ![t] = [net[t] EXCEPT !.state = "resolved",
                                                    !.response = record]]
  /\ upserts' = [upserts EXCEPT ![t] = @ + 1]
  /\ UNCHANGED <<formData, loading, error, caseDetails, toast, pc, closure,
                 calls, recentSearches, now, started,
                 pageVars, causeVars,
                 shellVars>>

\* the request never gets an answer from the backend (ECONNREFUSED, 500)
RequestFails(t) ==
  /\ net[t].method # "none"
  /\ net[t].state = "pending"
  /\ net' = [net EXCEPT ![t] = [net[t] EXCEPT !.state = "rejected",
                 !.response = [status |-> 0, detail |-> "", message |-> "Network Error"]]]
  /\ UNCHANGED <<formData, loading, error, caseDetails, toast, pc, closure,
                 calls, upserts, store, recentSearches, now, started,
                 pageVars, causeVars,
                 shellVars>>

\* a client without a request timeout (axios timeout: 0): no request is given up
ResponseTimeout_Off(t) ==
  /\ FALSE
  /\ UNCHANGED vars

\* timeout: API_TIMEOUT passes before the answer of the backend has arrived
ResponseTimeout(t) ==
  /\ API_TIMEOUT > 0
  /\ net[t].method # "none"
  /\ net[t].state \in {"pending", "resolved"}
  /\ net' = [net EXCEPT ![t] = [net[t] EXCEPT !.state = "rejected",
                 !.response = [status |-> 0, detail |-> "",
                               message |-> "timeout of 10000ms exceeded"]]]
  /\ UNCHANGED <<formData, loading, error, caseDetails, toast, pc, closure,
                 calls, upserts, store, recentSearches, now, started,
                 pageVars, causeVars,
                 shellVars>>

(* ---------------------------- handleSearch ---------------------------- *)

Take(s, n) == IF Len(s) <= n THEN s ELSE SubSeq(s, 1, n)

\* { id: Date.now(), ...formData, searchDate: new Date().toISOString() }
newSearch(fd, ms) ==
  [id |-> ms, caseType |-> fd.caseType, caseNumber |-> fd.caseNumber,
   year |-> fd.year, courtName |-> fd.courtName, searchDate |-> ms]

\* the list cut from its other end: slice(-10)
SaveRecentSearch_KeepOldest(fd, ms) ==
  LET all == <<newSearch(fd, ms)>> \o recentSearches
  IN IF Len(all) <= RecentCap THEN all
     ELSE SubSeq(all, Len(all) - RecentCap + 1, Len(all))

\* recentSearches.unshift(newSearch); setItem(..., recentSearches.slice(0, 10))
SaveRecentSearch(fd, ms) == Take(<<newSearch(fd, ms)>> \o recentSearches, RecentCap)

\* setLoading(true) moved above the check of the fields
HandleSearchMissing_SetLoading(t) ==
  /\ ~loading[t]
  /\ MissingInformation(formData[t])
  /\ loading' = [loading EXCEPT ![t] = TRUE]
  /\ toast' = [toast EXCEPT ![t] = "Missing Information"]
  /\ UNCHANGED <<formData, error, caseDetails, pc, closure, calls, net,
                 upserts, store, recentSearches, now, started,
                 pageVars, causeVars,
                 shellVars>>

\* handleSearch with a field missing: toast and return
HandleSearchMissing(t) ==
  /\ ~loading[t]
  /\ MissingInformation(formData[t])
  /\ toast' = [toast EXCEPT ![t] = "Missing Information"]
  /\ UNCHANGED <<formData, loading, error, caseDetails, pc, closure, calls, net,
                 upserts, store, recentSearches, now, started,
                 pageVars, causeVars,
                 shellVars>>

\* handleSearch up to its first await: the lookup is issued; n bounds the
\* searches of a behaviour
HandleSearchWithin(t, n) ==
  /\ ~loading[t]
  /\ ~MissingInformation(formData[t])
  /\ started < n
  /\ started' = started + 1
  /\ loading' = [loading EXCEPT ![t] = TRUE]
  /\ error' = [error EXCEPT ![t] = "null"]
  /\ closure' = [closure EXCEPT ![t] =
                   [formData |-> formData[t],
                    fullCaseNumber |-> fullCaseNumber(formData[t])]]
  /\ calls' = [calls EXCEPT ![t] =
                 <<Call("getCaseDetails", fullCaseNumber(formData[t]))>>]
  /\ net' = [net EXCEPT ![t] = getCaseDetails(fullCaseNumber(formData[t]))]
  /\ upserts' = [upserts EXCEPT ![t] = 0]
  /\ pc' = [pc EXCEPT ![t] = "awaitGet"]
  /\ UNCHANGED <<formData, caseDetails, toast, store, recentSearches, now,
                 pageVars, causeVars,
                 shellVars>>

\* the lookup and the submit sent off together, without awaiting the lookup
HandleSearch_SubmitFirst(t) ==
  /\ ~loading[t]
  /\ ~MissingInformation(formData[t])
  /\ started < MaxSearches
  /\ started' = started + 1
  /\ loading' = [loading EXCEPT ![t] = TRUE]
  /\ error' = [error EXCEPT ![t] = "null"]
  /\ closure' = [closure EXCEPT ![t] =
                   [formData |-> formData[t],
                    fullCaseNumber |-> fullCaseNumber(formData[t])]]
  /\ LET data == [case_number |-> fullCaseNumber(formData[t]),
                  court_name |-> formData[t].courtName]
     IN /\ calls' = [calls EXCEPT ![t] =
                       <<Call("getCaseDetails", fullCaseNumber(formData[t])),
                         Call("submitCaseQuery", data)>>]
        /\ net' = [net EXCEPT ![t] = submitCaseQuery(data)]
  /\ upserts' = [upserts EXCEPT ![t] = 0]
  /\ pc' = [pc EXCEPT ![t] = "awaitPost"]
  /\ UNCHANGED <<formData, caseDetails, toast, store, recentSearches, now,
                 pageVars, causeVars,
                 shellVars>>

\* handleSearch without its setError(null)
HandleSearch_KeepError(t) ==
  /\ ~loading[t]
  /\ ~MissingInformation(formData[t])
  /\ started < MaxSearches
  /\ started' = started + 1
  /\ loading' = [loading EXCEPT ![t] = TRUE]
  /\ closure' = [closure EXCEPT ![t] =
                   [formData |-> formData[t],
                    fullCaseNumber |-> fullCaseNumber(formData[t])]]
  /\ calls' = [calls EXCEPT ![t] =
                 <<Call("getCaseDetails", fullCaseNumber(formData[t]))>>]
  /\ net' = [net EXCEPT ![t] = getCaseDetails(fullCaseNumber(formData[t]))]
  /\ upserts' = [upserts EXCEPT ![t] = 0]
  /\ pc' = [pc EXCEPT ![t] = "awaitGet"]
  /\ UNCHANGED <<formData, error, caseDetails, toast, store, recentSearches, now,
                 pageVars, causeVars,
                 shellVars>>

HandleSearch(t) == HandleSearchWithin(t, MaxSearches)

\* the record found is shown with the court of the form written over its own
LookupResolved_Overwrite(t, ms) ==
  /\ pc[t] = "awaitGet"
  /\ net[t].state = "resolved"
  /\ caseDetails' = [caseDetails EXCEPT ![t] =
                       [net[t].response EXCEPT !.court_name = formData[t].courtName]]
  /\ toast' = [toast EXCEPT ![t] = "Case Found"]
  /\ calls' = [calls EXCEPT ![t] = Settle(@, "resolved", net[t].response)]
  /\ recentSearches' = SaveRecentSearch(closure[t].formData, ms)
  /\ now' = ms
  /\ loading' = [loading EXCEPT ![t] = FALSE]
  /\ pc' = [pc EXCEPT ![t] = "idle"]
  /\ net' = [net EXCEPT ![t] = NoReq]
  /\ UNCHANGED <<formData, error, closure, upserts, store, started,
                 pageVars, causeVars,
                 shellVars>>

\* the record found is shown, and the query is submitted all the same
LookupResolved_Refetch(t, ms) ==
  /\ pc[t] = "awaitGet"
  /\ net[t].state = "resolved"
  /\ caseDetails' = [caseDetails EXCEPT ![t] = net[t].response]
  /\ toast' = [toast EXCEPT ![t] = "Case Found"]
  /\ LET data == [case_number |-> closure[t].fullCaseNumber,
                  court_name |-> closure[t].formData.courtName]
     IN /\ calls' = [calls EXCEPT ![t] =
                       Append(Settle(@, "resolved", net[t].response),
                              Call("submitCaseQuery", data))]
        /\ net' = [net EXCEPT ![t] = submitCaseQuery(data)]
  /\ pc' = [pc EXCEPT ![t] = "awaitPost"]
  /\ now' = ms
  /\ UNCHANGED <<formData, loading, error, closure, upserts, store,
                 recentSearches, started,
                 pageVars, causeVars,
                 shellVars>>

\* await getCaseDetails resolves: the case is shown, the search is recorded
LookupResolved(t, ms) ==
  /\ pc[t] = "awaitGet"
  /\ net[t].state = "resolved"
  /\ caseDetails' = [caseDetails EXCEPT ![t] = net[t].response]
  /\ toast' = [toast EXCEPT ![t] = "Case Found"]
  /\ calls' = [calls EXCEPT ![t] = Settle(@, "resolved", net[t].response)]
  /\ recentSearches' = SaveRecentSearch(closure[t].formData, ms)
  /\ now' = ms
  /\ loading' = [loading EXCEPT ![t] = FALSE]
  /\ pc' = [pc EXCEPT ![t] = "idle"]
  /\ net' = [net EXCEPT ![t] = NoReq]
  /\ UNCHANGED <<formData, error, closure, upserts, store, started,
                 pageVars, causeVars,
                 shellVars>>

\* court_name read from the form as it is when the lookup rejects
LookupRejected_LiveCourt(t) ==
  /\ pc[t] = "awaitGet"
  /\ net[t].state = "rejected"
  /\ LET data == [case_number |-> closure[t].fullCaseNumber,
                  court_name |-> formData[t].courtName]
     IN /\ calls' = [calls EXCEPT ![t] =
                       Append(Settle(@, "rejected", net[t].response),
                              Call("submitCaseQuery", data))]
        /\ net' = [net EXCEPT ![t] = submitCaseQuery(data)]
  /\ pc' = [pc EXCEPT ![t] = "awaitPost"]
  /\ UNCHANGED <<formData, loading, error, caseDetails, toast, closure, upserts,
                 store, recentSearches, now, started,
                 pageVars, causeVars,
                 shellVars>>

\* case_number: formData.caseNumber, the bare number instead of the full key
LookupRejected_BareNumber(t) ==
  /\ pc[t] = "awaitGet"
  /\ net[t].state = "rejected"
  /\ LET data == [case_number |-> closure[t].formData.caseNumber,
                  court_name |-> closure[t].formData.courtName]
     IN /\ calls' = [calls EXCEPT ![t] =
                       Append(Settle(@, "rejected", net[t].response),
                              Call("submitCaseQuery", data))]
        /\ net' = [net EXCEPT ![t] = submitCaseQuery(data)]
  /\ pc' = [pc EXCEPT ![t] = "awaitPost"]
  /\ UNCHANGED <<formData, loading, error, caseDetails, toast, closure, upserts,
                 store, recentSearches, now, started,
                 pageVars, causeVars,
                 shellVars>>

\* await getCaseDetails rejects: catch (getCaseError), the query is submitted
LookupRejected(t) ==
  /\ pc[t] = "awaitGet"
  /\ net[t].state = "rejected"
  /\ LET data == [case_number |-> closure[t].fullCaseNumber,
                  court_name |-> closure[t].formData.courtName]
     IN /\ calls' = [calls EXCEPT ![t] =
                       Append(Settle(@, "rejected", net[t].response),
                              Call("submitCaseQuery", data))]
        /\ net' = [net EXCEPT ![t] = submitCaseQuery(data)]
  /\ pc' = [pc EXCEPT ![t] = "awaitPost"]
  /\ UNCHANGED <<formData, loading, error, caseDetails, toast, closure, upserts,
                 store, recentSearches, now, started,
                 pageVars, causeVars,
                 shellVars>>

\* the entry is built from the form as it is when the submit resolves
SubmitResolved_LiveForm(t, ms) ==
  /\ pc[t] = "awaitPost"
  /\ net[t].state = "resolved"
  /\ caseDetails' = [caseDetails EXCEPT ![t] = net[t].response]
  /\ toast' = [toast EXCEPT ![t] = "Case Query Submitted"]
  /\ calls' = [calls EXCEPT ![t] = Settle(@, "resolved", net[t].response)]
  /\ recentSearches' = SaveRecentSearch(formData[t], ms)
  /\ now' = ms
  /\ loading' = [loading EXCEPT ![t] = FALSE]
  /\ pc' = [pc EXCEPT ![t] = "idle"]
  /\ net' = [net EXCEPT ![t] = NoReq]
  /\ UNCHANGED <<formData, error, closure, upserts, store, started,
                 pageVars, causeVars,
                 shellVars>>

\* await submitCaseQuery resolves: the new case is shown, the search recorded
SubmitResolved(t, ms) ==
  /\ pc[t] = "awaitPost"
  /\ net[t].state = "resolved"
  /\ caseDetails' = [caseDetails EXCEPT ![t] = net[t].response]
  /\ toast' = [toast EXCEPT ![t] = "Case Query Submitted"]
  /\ calls' = [calls EXCEPT ![t] = Settle(@, "resolved", net[t].response)]
  /\ recentSearches' = SaveRecentSearch(closure[t].formData, ms)
  /\ now' = ms
  /\ loading' = [loading EXCEPT ![t] = FALSE]
  /\ pc' = [pc EXCEPT ![t] = "idle"]
  /\ net' = [net EXCEPT ![t] = NoReq]
  /\ UNCHANGED <<formData, error, closure, upserts, store, started,
                 pageVars, causeVars,
                 shellVars>>

\* a rejected submit is sent once more before the search gives up
SubmitRejected_Retry(t) ==
  /\ pc[t] = "awaitPost"
  /\ net[t].state = "rejected"
  /\ IF Len(calls[t]) < 3
     THEN /\ calls' = [calls EXCEPT ![t] =
                         Append(Settle(@, "rejected", net[t].response),
                                Call("submitCaseQuery", net[t].data))]
          /\ net' = [net EXCEPT ![t] = submitCaseQuery(net[t].data)]
          /\ UNCHANGED <<error, toast, loading, pc>>
     ELSE /\ error' = [error EXCEPT ![t] = ErrorText(net[t].response)]
          /\ toast' = [toast EXCEPT ![t] = "Search Failed"]
          /\ calls' = [calls EXCEPT ![t] = Settle(@, "rejected", net[t].response)]
          /\ loading' = [loading EXCEPT ![t] = FALSE]
          /\ pc' = [pc EXCEPT ![t] = "idle"]
          /\ net' = [net EXCEPT ![t] = NoReq]
  /\ UNCHANGED <<formData, caseDetails, closure, upserts, store, recentSearches,
                 now, started,
                 pageVars, causeVars,
                 shellVars>>

\* the failed search also takes the record shown before off the screen
SubmitRejected_ClearDetails(t) ==
  /\ pc[t] = "awaitPost"
  /\ net[t].state = "rejected"
  /\ error' = [error EXCEPT ![t] = ErrorText(net[t].response)]
  /\ toast' = [toast EXCEPT ![t] = "Search Failed"]
  /\ caseDetails' = [caseDetails EXCEPT ![t] = Null]
  /\ calls' = [calls EXCEPT ![t] = Settle(@, "rejected", net[t].response)]
  /\ loading' = [loading EXCEPT ![t] = FALSE]
  /\ pc' = [pc EXCEPT ![t] = "idle"]
  /\ net' = [net EXCEPT ![t] = NoReq]
  /\ UNCHANGED <<formData, closure, upserts, store, recentSearches,
                 now, started,
                 pageVars, causeVars,
                 shellVars>>

\* await submitCaseQuery rejects: the outer catch and finally
SubmitRejected(t) ==
  /\ pc[t] = "awaitPost"
  /\ net[t].state = "rejected"
  /\ error' = [error EXCEPT ![t] = ErrorText(net[t].response)]
  /\ toast' = [toast EXCEPT ![t] = "Search Failed"]
  /\ calls' = [calls EXCEPT ![t] = Settle(@, "rejected", net[t].response)]
  /\ loading' = [loading EXCEPT ![t] = FALSE]
  /\ pc' = [pc EXCEPT ![t] = "idle"]
  /\ net' = [net EXCEPT ![t] = NoReq]
  /\ UNCHANGED <<formData, caseDetails, closure, upserts, store, recentSearches,
                 now, started,
                 pageVars, causeVars,
                 shellVars>>

(* ------------------------- what CourtSearch shows ------------------------ *)

\* {error && <Card> Search Error {error} </Card>}
ErrorCard(t) == IF error[t] = "null" THEN {} ELSE {"Search Error", error[t]}

\* {caseDetails && <Card> Case Details {caseDetails.case_number} -
\* {caseDetails.court_name} ... </Card>}: of the fields of the model the card
\* prints the case number and the court, never success or error_message
DetailsCard(t) ==
  IF caseDetails[t] = Null THEN [shown |-> FALSE, case_number |-> <<>>, court_name |-> ""]
  ELSE [shown |-> TRUE, case_number |-> caseDetails[t].case_number,
        court_name |-> caseDetails[t].court_name]

\* the screen of the tab: the error card, the details card, the last toast and
\* the state of the button
Displayed(t) ==
  [errorCard |-> ErrorCard(t), detailsCard |-> DetailsCard(t),
   toast |-> toast[t], searching |-> loading[t]]

(* ------------------------ the RecentSearches page ------------------------ *)

\* useEffect(() => { const saved = getItem(...); if (saved) setRecentSearches(JSON.parse(saved)) }, [])
\* An absent key and a stored "[]" both leave the page with the empty list.
PageMount ==
  /\ ~pageMounted
  /\ pageMounted' = TRUE
  /\ pageRecentSearches' = recentSearches
  /\ UNCHANGED <<formData, loading, error, caseDetails, toast, pc, closure, calls,
                 net, upserts, store, recentSearches, now, started,
                 pageToast, location, causeVars,
                 shellVars>>

\* the ids of the rows the page shows: recentSearches.map(search => ... search.id)
ShownIds == { pageRecentSearches[i].id : i \in 1..Len(pageRecentSearches) }

Keep(s, id) == SelectSeq(s, LAMBDA search : search.id # id)

\* handleRerun(search): toast, then navigate("/court/search", { state }); the
\* route change unmounts the page
HandleRerun_Delete(i) ==
  /\ pageMounted
  /\ i \in 1..Len(pageRecentSearches)
  /\ pageToast' = "Re-running Search"
  /\ location' = [path |-> "/court/search",
                  state |-> [caseType |-> pageRecentSearches[i].caseType,
                             caseNumber |-> pageRecentSearches[i].caseNumber,
                             year |-> pageRecentSearches[i].year]]
  /\ pageMounted' = FALSE
  /\ pageRecentSearches' = <<>>
  /\ store' = SelectSeq(store, LAMBDA row :
                row.case_number # fullCaseNumber(pageRecentSearches[i]))
  /\ UNCHANGED <<formData, loading, error, caseDetails, toast, pc, closure, calls,
                 net, upserts, recentSearches, now, started, causeVars,
                 shellVars>>

HandleRerun(i) ==
  /\ pageMounted
  /\ i \in 1..Len(pageRecentSearches)
  /\ pageToast' = "Re-running Search"
  /\ location' = [path |-> "/court/search",
                  state |-> [caseType |-> pageRecentSearches[i].caseType,
                             caseNumber |-> pageRecentSearches[i].caseNumber,
                             year |-> pageRecentSearches[i].year]]
  /\ pageMounted' = FALSE
  /\ pageRecentSearches' = <<>>
  /\ UNCHANGED <<formData, loading, error, caseDetails, toast, pc, closure, calls,
                 net, upserts, store, recentSearches, now, started, causeVars,
                 shellVars>>

\* handleDelete(id): the list of the page without the id is shown and stored
HandleDelete(id) ==
  /\ pageMounted
  /\ id \in ShownIds
  /\ pageRecentSearches' = Keep(pageRecentSearches, id)
  /\ recentSearches' = Keep(pageRecentSearches, id)
  /\ pageToast' = "Search Deleted"
  /\ UNCHANGED <<formData, loading, error, caseDetails, toast, pc, closure, calls,
                 net, upserts, store, now, started, pageMounted, location,
                 causeVars,
                 shellVars>>

\* handleClearAll: shown while the page has rows; removeItem leaves the key
\* absent, which every reader takes for the empty list
HandleClearAll ==
  /\ pageMounted
  /\ Len(pageRecentSearches) > 0
  /\ pageRecentSearches' = <<>>
  /\ recentSearches' = <<>>
  /\ pageToast' = "History Cleared"
  /\ UNCHANGED <<formData, loading, error, caseDetails, toast, pc, closure, calls,
                 net, upserts, store, now, started, pageMounted, location,
                 causeVars,
                 shellVars>>

(* --------------------------- the CauseList page -------------------------- *)

\* SelectItem values of the court Select
CauseCourtOptions == { "high-court", "district-court", "session-court",
                       "magistrate-court" }

InputCauseCourts == { "high-court" }
InputCauseDates == { "", "2026-11-04" }
\* texts typed into the case-number filter
InputFilters == { <<>>, <<"5">>, <<"W","P">>, <<"X">> }

\* onValueChange={(value) => setFormData({ ...formData, courtType: value })}
SetCourtType(v) ==
  /\ causeFormData.courtType # v
  /\ causeFormData' = [causeFormData EXCEPT !.courtType = v]
  /\ UNCHANGED <<formData, loading, error, caseDetails, toast, pc, closure, calls,
                 net, upserts, store, recentSearches, now, started, pageVars,
                 causeLoading, causeError, causeListData, causeToast, causeNet,
                 causeTable, refreshes,
                 shellVars>>

\* onChange={(e) => setFormData({ ...formData, date: e.target.value })}
SetDate(v) ==
  /\ causeFormData.date # v
  /\ causeFormData' = [causeFormData EXCEPT !.date = v]
  /\ UNCHANGED <<formData, loading, error, caseDetails, toast, pc, closure, calls,
                 net, upserts, store, recentSearches, now, started, pageVars,
                 causeLoading, causeError, causeListData, causeToast, causeNet,
                 causeTable, refreshes,
                 shellVars>>

\* onChange={(e) => setFormData({ ...formData, caseNumber: e.target.value })}
SetFilter(v) ==
  /\ causeFormData.caseNumber # v
  /\ causeFormData' = [causeFormData EXCEPT !.caseNumber = v]
  /\ UNCHANGED <<formData, loading, error, caseDetails, toast, pc, closure, calls,
                 net, upserts, store, recentSearches, now, started, pageVars,
                 causeLoading, causeError, causeListData, causeToast, causeNet,
                 causeTable, refreshes,
                 shellVars>>

\* CauseList.handleSearch with the court or the date missing: toast and return
CauseHandleSearchMissing ==
  /\ ~causeLoading
  /\ (causeFormData.courtType = "" \/ causeFormData.date = "")
  /\ causeToast' = "Missing Information"
  /\ UNCHANGED <<formData, loading, error, caseDetails, toast, pc, closure, calls,
                 net, upserts, store, recentSearches, now, started, pageVars,
                 causeFormData, causeLoading, causeError, causeListData, causeNet,
                 causeTable, refreshes,
                 shellVars>>

\* CauseList.handleSearch up to its await: the listing is requested
CauseHandleSearch ==
  /\ ~causeLoading
  /\ causeFormData.courtType # "" /\ causeFormData.date # ""
  /\ causeLoading' = TRUE
  /\ causeError' = "null"
  /\ causeNet' = getCauseList(CauseParams(causeFormData))
  /\ UNCHANGED <<formData, loading, error, caseDetails, toast, pc, closure, calls,
                 net, upserts, store, recentSearches, now, started, pageVars,
                 causeFormData, causeListData, causeToast, causeTable, refreshes,
                 shellVars>>

Reverse(s) == [i \in 1..Len(s) |-> s[Len(s) + 1 - i]]

\* the rows received are kept back to front
CauseResolved_Reversed ==
  /\ causeNet.method = "GET"
  /\ causeNet.state = "resolved"
  /\ causeListData' = Reverse(causeNet.response)
  /\ causeToast' = "Cause List Retrieved"
  /\ causeLoading' = FALSE
  /\ causeNet' = NoReq
  /\ UNCHANGED <<formData, loading, error, caseDetails, toast, pc, closure, calls,
                 net, upserts, store, recentSearches, now, started, pageVars,
                 causeFormData, causeError, causeTable, refreshes,
                 shellVars>>

\* const data = await courtApi.getCauseList(params); setCauseListData(data); toast
CauseResolved ==
  /\ causeNet.method = "GET"
  /\ causeNet.state = "resolved"
  /\ causeListData' = causeNet.response
  /\ causeToast' = "Cause List Retrieved"
  /\ causeLoading' = FALSE
  /\ causeNet' = NoReq
  /\ UNCHANGED <<formData, loading, error, caseDetails, toast, pc, closure, calls,
                 net, upserts, store, recentSearches, now, started, pageVars,
                 causeFormData, causeError, causeTable, refreshes,
                 shellVars>>

\* catch: setError(error.message); toast; the rows shown before stay
CauseRejected ==
  /\ causeNet.method = "GET"
  /\ causeNet.state = "rejected"
  /\ causeError' = causeNet.error
  /\ causeToast' = "Fetch Failed"
  /\ causeLoading' = FALSE
  /\ causeNet' = NoReq
  /\ UNCHANGED <<formData, loading, error, caseDetails, toast, pc, closure, calls,
                 net, upserts, store, recentSearches, now, started, pageVars,
                 causeFormData, causeListData, causeTable, refreshes,
                 shellVars>>

\* the request is not answered: no connection, or API_TIMEOUT passes
CauseRequestFails(message) ==
  /\ causeNet.method = "GET"
  /\ causeNet.state = "pending"
  /\ causeNet' = [causeNet EXCEPT !.state = "rejected", !.error = message]
  /\ UNCHANGED <<formData, loading, error, caseDetails, toast, pc, closure, calls,
                 net, upserts, store, recentSearches, now, started, pageVars,
                 causeFormData, causeLoading, causeError, causeListData,
                 causeToast, causeTable, refreshes,
                 shellVars>>

\* s.includes(sub)
Includes(s, sub) ==
  \E i \in 0..(Len(s) - Len(sub)) : SubSeq(s, i + 1, i + Len(sub)) = sub

\* only the rows that match the filter are shown
Render_Filtered(data, filter) ==
  LET kept == SelectSeq(data, LAMBDA item :
                filter = <<>> \/ Includes(item.case_number, filter))
  IN [i \in 1..Len(kept) |->
        [index |-> i, item |-> kept[i], isHighlighted |-> filter # <<>>]]

\* causeListData.map((item, index) => { const isHighlighted =
\*   formData.caseNumber && item.case_number.includes(formData.caseNumber); ... })
Render(data, filter) ==
  [i \in 1..Len(data) |->
     [index |-> i, item |-> data[i],
      isHighlighted |-> filter # <<>> /\ Includes(data[i].case_number, filter)]]

\* the rows of the table on the screen
ShownRows == Render(causeListData, causeFormData.caseNumber)

(* ------------------------- the cause-list service ------------------------ *)

\* the characters of case numbers and hearing times, in code-point order
Alphabet == <<" ", "/", "0", "1", "2", "3", "4", "5", "6", "7", "8", "9", ":",
              "C", "P", "S", "W">>

Rank(ch) == CHOOSE i \in 1..Len(Alphabet) : Alphabet[i] = ch

RECURSIVE StrLess(_, _)
StrLess(a, b) ==
  IF b = <<>> THEN FALSE
  ELSE IF a = <<>> THEN TRUE
  ELSE IF Head(a) # Head(b) THEN Rank(Head(a)) < Rank(Head(b))
  ELSE StrLess(Tail(a), Tail(b))

\* an entry without a hearing time carries the empty sequence
NoTime == <<>>

\* hearingTime ascending, entries without one last, ties by caseNumber ascending
EntryBefore(a, b) ==
  IF a.hearing_time # b.hearing_time
  THEN IF a.hearing_time = NoTime THEN FALSE
       ELSE IF b.hearing_time = NoTime THEN TRUE
       ELSE StrLess(a.hearing_time, b.hearing_time)
  ELSE StrLess(a.case_number, b.case_number)

RECURSIVE InsertEntry(_, _)
InsertEntry(e, s) ==
  IF s = <<>> THEN <<e>>
  ELSE IF EntryBefore(e, Head(s)) THEN <<e>> \o s
  ELSE <<Head(s)>> \o InsertEntry(e, Tail(s))

RECURSIVE SortEntries(_)
SortEntries(s) == IF s = <<>> THEN <<>> ELSE InsertEntry(Head(s), SortEntries(Tail(s)))

\* query(courtName, date, limit, skip = 0): the rows of the court and the date,
\* in the order of the service, at most limit of them
listCauseList(courtName, date, limit) ==
  Take(SortEntries(SelectSeq(causeTable, LAMBDA row :
         row.court_name = courtName /\ row.date = date)), limit)

\* GET cause-list
ServerCauseList ==
  /\ causeNet.method = "GET"
  /\ causeNet.state = "pending"
  /\ causeNet' = [causeNet EXCEPT
       !.state = "resolved",
       !.response = listCauseList(causeNet.params.court_name,
                                  causeNet.params.date, causeNet.params.limit)]
  /\ UNCHANGED <<formData, loading, error, caseDetails, toast, pc, closure, calls,
                 net, upserts, store, recentSearches, now, started, pageVars,
                 causeFormData, causeLoading, causeError, causeListData,
                 causeToast, causeTable, refreshes,
                 shellVars>>

CaseNo(type, number) == type \o <<" ">> \o number \o <<"/">> \o toString(CurrentYear)

\* an entry as the adapter lists it; the store gives it its id
Listed(courtName, date, caseNumber, hearingTime) ==
  [id |-> 0, court_name |-> courtName, date |-> date, case_number |-> caseNumber,
   hearing_time |-> hearingTime, case_status |-> "Listed"]

\* what the adapter can return for fetchCauseList(court, date)
AdapterListings(courtName, date) ==
  { << Listed(courtName, date, CaseNo(<<"W","P">>, <<"6">>), NoTime),
       Listed(courtName, date, CaseNo(<<"W","P">>, <<"5">>), <<"1","0",":","3","0">>),
       Listed(courtName, date, CaseNo(<<"C","S">>, <<"5">>), <<"1","0",":","3","0">>) >>,
    << Listed(courtName, date, CaseNo(<<"W","P">>, <<"5">>), <<"1","0",":","3","0">>),
       Listed(courtName, date, CaseNo(<<"C","S">>, <<"7">>), <<"0","9",":","0","0">>) >> }

RefreshCourts == { "High Court of Delhi", "high-court" }

\* the (caseNumber, date, courtName) tuple of an entry
DedupKey(e) == <<e.case_number, e.date, e.court_name>>

\* findCauseListDuplicates(entries): the keys already present
findCauseListDuplicates(entries) ==
  { DedupKey(causeTable[i]) : i \in 1..Len(causeTable) }
    \cap { DedupKey(entries[i]) : i \in 1..Len(entries) }

\* the row the store writes for an entry: the entry under a surrogate id
Stored(e, id) ==
  [id |-> id, court_name |-> e.court_name, date |-> e.date,
   case_number |-> e.case_number, hearing_time |-> e.hearing_time,
   case_status |-> e.case_status]

RECURSIVE insertCauseListEntries(_, _)
\* insertCauseListEntries(entries): each is appended under the next id
insertCauseListEntries(table, entries) ==
  IF entries = <<>> THEN table
  ELSE insertCauseListEntries(
         Append(table, Stored(Head(entries), Len(table) + 1)), Tail(entries))

\* every entry of the listing is appended, present or not
Refresh_Append(courtName, date) ==
  /\ Len(refreshes) < MaxRefreshes
  /\ \E listing \in AdapterListings(courtName, date) :
       /\ causeTable' = insertCauseListEntries(causeTable, listing)
       /\ refreshes' = Append(refreshes, [court_name |-> courtName, date |-> date,
                                          listing |-> listing,
                                          written |-> Len(listing)])
  /\ UNCHANGED <<formData, loading, error, caseDetails, toast, pc, closure, calls,
                 net, upserts, store, recentSearches, now, started, pageVars,
                 causeFormData, causeLoading, causeError, causeListData,
                 causeToast, causeNet,
                 shellVars>>

\* refresh(courtName, date): the listing the adapter returns is diffed against
\* the rows present by (caseNumber, date, courtName), the rest is appended
Refresh(courtName, date) ==
  /\ Len(refreshes) < MaxRefreshes
  /\ \E listing \in AdapterListings(courtName, date) :
       LET fresh == SelectSeq(listing, LAMBDA e :
                      DedupKey(e) \notin findCauseListDuplicates(listing))
       IN /\ causeTable' = insertCauseListEntries(causeTable, fresh)
          /\ refreshes' = Append(refreshes, [court_name |-> courtName, date |-> date,
                                             listing |-> listing,
                                             written |-> Len(fresh)])
  /\ UNCHANGED <<formData, loading, error, caseDetails, toast, pc, closure, calls,
                 net, upserts, store, recentSearches, now, started, pageVars,
                 causeFormData, causeLoading, causeError, causeListData,
                 causeToast, causeNet,
                 shellVars>>

(* --------------------------- specification ---------------------------- *)

\* Two tabs of one browser searching at the same time.  Both tabs share the
\* backend and localStorage; each fills its form from the same few choices.
Next ==
  \/ \E t \in Tabs, v \in InputCaseTypes : SetCaseType(t, v)
  \/ \E t \in Tabs, v \in SharedCaseNumbers : SetCaseNumber(t, v)
  \/ \E t \in Tabs, v \in InputYears : SetYear(t, v)
  \/ \E t \in Tabs, v \in InputCourts : SetCourtName(t, v)
  \/ \E t \in Tabs : HandleSearchMissing(t)
  \/ \E t \in Tabs : HandleSearch(t)
  \/ \E t \in Tabs, ms \in now..MaxClock : LookupResolved(t, ms)
  \/ \E t \in Tabs : LookupRejected(t)
  \/ \E t \in Tabs, ms \in now..MaxClock : SubmitResolved(t, ms)
  \/ \E t \in Tabs : SubmitRejected(t)
  \/ \E t \in Tabs : ServerGetCase(t)
  \/ \E t \in Tabs, ok \in BOOLEAN : ServerSubmitCase(t, ok)
  \/ \E t \in Tabs : RequestFails(t)
  \/ \E t \in Tabs : ResponseTimeout(t)

Spec == Init /\ [][Next]_vars

\* One tab on its own, with every kind of case number typed in its form:
\* a numeric one, a blank one and an emptied field.
NextOneTab ==
  \/ \E v \in InputCaseTypes : SetCaseType(TheTab, v)
  \/ \E v \in InputCaseNumbers : SetCaseNumber(TheTab, v)
  \/ \E v \in InputYears : SetYear(TheTab, v)
  \/ \E v \in InputCourts : SetCourtName(TheTab, v)
  \/ HandleSearchMissing(TheTab)
  \/ HandleSearch(TheTab)
  \/ \E ms \in now..MaxClock : LookupResolved(TheTab, ms)
  \/ LookupRejected(TheTab)
  \/ \E ms \in now..MaxClock : SubmitResolved(TheTab, ms)
  \/ SubmitRejected(TheTab)
  \/ ServerGetCase(TheTab)
  \/ \E ok \in BOOLEAN : ServerSubmitCase(TheTab, ok)
  \/ RequestFails(TheTab)
  \/ ResponseTimeout(TheTab)

SpecOneTab == Init /\ [][NextOneTab]_vars

\* what runs when the awaited promise of the tab settles
Continue(t) ==
  \/ \E ms \in now..MaxClock : LookupResolved(t, ms)
  \/ LookupRejected(t)
  \/ \E ms \in now..MaxClock : SubmitResolved(t, ms)
  \/ SubmitRejected(t)

\* One tab searching one case under the default court.
NextLive ==
  \/ \E v \in InputCaseTypes : SetCaseType(TheTab, v)
  \/ \E v \in SharedCaseNumbers : SetCaseNumber(TheTab, v)
  \/ \E v \in InputYears : SetYear(TheTab, v)
  \/ HandleSearchMissing(TheTab)
  \/ HandleSearch(TheTab)
  \/ \E ms \in now..MaxClock : LookupResolved(TheTab, ms)
  \/ LookupRejected(TheTab)
  \/ \E ms \in now..MaxClock : SubmitResolved(TheTab, ms)
  \/ SubmitRejected(TheTab)
  \/ ServerGetCase(TheTab)
  \/ \E ok \in BOOLEAN : ServerSubmitCase(TheTab, ok)
  \/ RequestFails(TheTab)
  \/ ResponseTimeout(TheTab)

\* The same tab with the scheduling the client guarantees: the timer of a
\* request fires unless the request has settled, and the continuation of a
\* settled promise is run.  The backend is not assumed to answer.
LiveOneTab ==
  /\ Init
  /\ [][NextLive]_vars
  /\ WF_vars(ResponseTimeout(TheTab))
  /\ WF_vars(Continue(TheTab))

\* One tab that searches one case again and again while the RecentSearches
\* page is used; the clock ticks once per search, so the id of an entry is
\* the ordinal of its search.
NextCap ==
  \/ \E v \in InputCaseTypes : SetCaseType(TheTab, v)
  \/ \E v \in SharedCaseNumbers : SetCaseNumber(TheTab, v)
  \/ \E v \in InputYears : SetYear(TheTab, v)
  \/ HandleSearchWithin(TheTab, MaxRecorded)
  \/ ServerGetCase(TheTab)
  \/ ServerSubmitCase(TheTab, TRUE)
  \/ LookupResolved(TheTab, started)
  \/ LookupRejected(TheTab)
  \/ SubmitResolved(TheTab, started)
  \/ PageMount
  \/ \E i \in 1..Len(pageRecentSearches) : HandleRerun(i)
  \/ \E id \in ShownIds : HandleDelete(id)
  \/ HandleClearAll

SpecCap == Init /\ [][NextCap]_vars

\* The CauseList page of one tab and the cause-list service behind it.
NextCause ==
  \/ \E v \in InputCauseCourts : SetCourtType(v)
  \/ \E v \in InputCauseDates \cup {Today} : SetDate(v)
  \/ \E v \in InputFilters : SetFilter(v)
  \/ CauseHandleSearchMissing
  \/ CauseHandleSearch
  \/ CauseResolved
  \/ CauseRejected
  \/ \E m \in {"Network Error", "timeout of 10000ms exceeded"} : CauseRequestFails(m)
  \/ ServerCauseList
  \/ \E c \in RefreshCourts : Refresh(c, Today)

SpecCause == Init /\ [][NextCause]_vars

\* One tab that searches one case, the backend, and the RecentSearches page
\* open next to it.
NextRecent ==
  \/ \E v \in InputCaseTypes : SetCaseType(TheTab, v)
  \/ \E v \in SharedCaseNumbers : SetCaseNumber(TheTab, v)
  \/ \E v \in InputYears : SetYear(TheTab, v)
  \/ HandleSearch(TheTab)
  \/ \E ms \in now..MaxClock : LookupResolved(TheTab, ms)
  \/ LookupRejected(TheTab)
  \/ \E ms \in now..MaxClock : SubmitResolved(TheTab, ms)
  \/ SubmitRejected(TheTab)
  \/ ServerGetCase(TheTab)
  \/ \E ok \in BOOLEAN : ServerSubmitCase(TheTab, ok)
  \/ RequestFails(TheTab)
  \/ ResponseTimeout(TheTab)
  \/ PageMount
  \/ \E i \in 1..Len(pageRecentSearches) : HandleRerun(i)
  \/ \E id \in ShownIds : HandleDelete(id)
  \/ HandleClearAll

SpecRecent == Init /\ [][NextRecent]_vars

\* One CourtSearch tab under the default court and the CauseList page with
\* the cause-list table left empty: the two components that keep a loading
\* flag, each with every way its request can end.
NextLoading ==
  \/ NextLive
  \/ \E v \in InputCauseDates \cup {Today} : SetDate(v)
  \/ CauseHandleSearchMissing
  \/ CauseHandleSearch
  \/ CauseResolved
  \/ CauseRejected
  \/ \E m \in {"Network Error", "timeout of 10000ms exceeded"} : CauseRequestFails(m)
  \/ ServerCauseList

SpecLoading == Init /\ [][NextLoading]_vars

\* Case identifiers for the key: three of the case types, two of the years
\* and case numbers that hold the separators of the key themselves.
KeyCaseTypes == { <<"C","S">>, <<"C","C">>, <<"C","R","L">> }
KeyYears == { toString(CurrentYear), toString(CurrentYear - 1) }
KeyCaseNumbers == { <<"5">>, <<"5","6">>, <<" ","5">>, <<"5"," ">>, <<"/">>,
                    <<"5","/">> \o toString(CurrentYear) }

KeyForms ==
  { [caseType |-> ty, caseNumber |-> nu, year |-> yr, courtName |-> "High Court of Delhi"] :
      ty \in KeyCaseTypes, nu \in KeyCaseNumbers, yr \in KeyYears }

\* two tabs whose forms have been filled in, each with some identifier
InitKeys ==
  /\ formData \in [Tabs -> KeyForms]
  /\ loading = [t \in Tabs |-> FALSE]
  /\ error = [t \in Tabs |-> "null"]
  /\ caseDetails = [t \in Tabs |-> Null]
  /\ toast = [t \in Tabs |-> "none"]
  /\ pc = [t \in Tabs |-> "idle"]
  /\ closure = [t \in Tabs |-> NoClosure]
  /\ calls = [t \in Tabs |-> <<>>]
  /\ net = [t \in Tabs |-> NoReq]
  /\ upserts = [t \in Tabs |-> 0]
  /\ store = <<>>
  /\ recentSearches = <<>>
  /\ now = 0
  /\ started = 0
  /\ pageMounted = FALSE
  /\ pageRecentSearches = <<>>
  /\ pageToast = "none"
  /\ location = Null
  /\ causeFormData = InitialCauseFormData
  /\ causeLoading = TRUE
  /\ causeError = "null"
  /\ causeListData = <<>>
  /\ causeToast = "none"
  /\ causeNet = getCauseList(CauseParams(InitialCauseFormData))
  /\ causeTable = <<>>
  /\ refreshes = <<>>
  /\ integrations = InitialIntegrations
  /\ timers = [s \in Services |-> NoTimer]
  /\ integrationToast = <<"none", "none">>
  /\ pathname = HomePath
  /\ isOpen = FALSE

\* each tab builds its key and sends its lookup
NextKeys == \E t \in Tabs : HandleSearch(t)

SpecKeys == InitKeys /\ [][NextKeys]_vars

(* ------------------------- the Integrations page ------------------------- *)

\* handleConnect(service), from the button of the service, which is disabled
\* while the service is loading: the functional update sets loading of the
\* service and setTimeout keeps the callback, a closure over the integrations
\* of the render in which the button was clicked
HandleConnect(service) ==
  /\ ~integrations[service].loading
  /\ integrations' = [integrations EXCEPT ![service] =
                        [connected |-> integrations[service].connected,
                         loading |-> TRUE]]
  /\ timers' = [timers EXCEPT ![service] =
                  [pending |-> TRUE, integrations |-> integrations]]
  /\ UNCHANGED <<formData, loading, error, caseDetails, toast, pc, closure, calls,
                 net, upserts, store, recentSearches, now, started, pageVars,
                 causeVars, integrationToast, pathname, isOpen>>

\* `Integration ${action.split(" ")[0]}`, action read from the captured state
ToastTitle(captured, service) ==
  IF captured[service].connected THEN "Integration disconnected"
  ELSE "Integration connected"

\* a callback that writes the captured state back with the service changed
TimerFires_Snapshot(service) ==
  /\ timers[service] # NoTimer
  /\ integrations' = [s \in Services |->
                        IF s = service
                        THEN [connected |-> ~timers[service].integrations[s].connected,
                              loading |-> FALSE]
                        ELSE timers[service].integrations[s]]
  /\ integrationToast' = <<ToastTitle(timers[service].integrations, service), service>>
  /\ timers' = [timers EXCEPT ![service] = NoTimer]
  /\ UNCHANGED <<formData, loading, error, caseDetails, toast, pc, closure, calls,
                 net, upserts, store, recentSearches, now, started, pageVars,
                 causeVars, pathname, isOpen>>

\* the callback of setTimeout: the functional update flips connected of the
\* service in the state of that moment and ends its loading; the toast is
\* worded from the captured state. The timers all wait 2000 ms, so they
\* fire in the order of the clicks; any order is allowed here.
TimerFires(service) ==
  /\ timers[service] # NoTimer
  /\ integrations' = [s \in Services |->
                        IF s = service
                        THEN [connected |-> ~integrations[s].connected,
                              loading |-> FALSE]
                        ELSE integrations[s]]
  /\ integrationToast' = <<ToastTitle(timers[service].integrations, service), service>>
  /\ timers' = [timers EXCEPT ![service] = NoTimer]
  /\ UNCHANGED <<formData, loading, error, caseDetails, toast, pc, closure, calls,
                 net, upserts, store, recentSearches, now, started, pageVars,
                 causeVars, pathname, isOpen>>

(* --------------------------- the navigation bar -------------------------- *)

CourtPath == <<"/", "c", "o", "u", "r", "t">>

\* the paths of the Routes
RoutePaths ==
  { HomePath,
    CourtPath,
    CourtPath \o <<"/", "s", "e", "a", "r", "c", "h">>,
    CourtPath \o <<"/", "c", "a", "u", "s", "e", "-", "l", "i", "s", "t">>,
    CourtPath \o <<"/", "r", "e", "c", "e", "n", "t">>,
    CourtPath \o <<"/", "i", "n", "t", "e", "g", "r", "a", "t", "i", "o", "n", "s">> }

\* paths that only the catch-all route matches
OtherPaths ==
  { <<"/", "c", "o", "u", "r", "t", "s">>,
    <<"/", "c", "o", "u", "r">>,
    <<"/", "a", "b", "o", "u", "t">>,
    <<"/", "d", "r", "i", "v", "e", "/", "c", "o", "u", "r", "t">> }

InputPaths == RoutePaths \cup OtherPaths

\* href of navItems
NavHrefs == { HomePath, CourtPath }

\* String.prototype.startsWith
startsWith(s, prefix) ==
  /\ Len(prefix) <= Len(s)
  /\ \A i \in 1..Len(prefix) : s[i] = prefix[i]

\* an item that is active on its own path only
isActive_Exact(path) == pathname = path

\* location.pathname === path || location.pathname.startsWith(path)
isActive(path) == pathname = path \/ startsWith(pathname, path)

\* the items drawn with the variant "legal-gold"
ActiveItems == { href \in NavHrefs : isActive(href) }

\* the router takes the window to a path: a link of a page, the address bar
Visit(path) ==
  /\ pathname' = path
  /\ UNCHANGED <<formData, loading, error, caseDetails, toast, pc, closure, calls,
                 net, upserts, store, recentSearches, now, started, pageVars,
                 causeVars, integrations, timers, integrationToast, isOpen>>

\* onClick={() => setIsOpen(!isOpen)}
ToggleMenu ==
  /\ isOpen' = ~isOpen
  /\ UNCHANGED <<formData, loading, error, caseDetails, toast, pc, closure, calls,
                 net, upserts, store, recentSearches, now, started, pageVars,
                 causeVars, integrations, timers, integrationToast, pathname>>

\* a Link of the open mobile menu: to={item.href} onClick={() => setIsOpen(false)}
MobileLink(href) ==
  /\ isOpen
  /\ pathname' = href
  /\ isOpen' = FALSE
  /\ UNCHANGED <<formData, loading, error, caseDetails, toast, pc, closure, calls,
                 net, upserts, store, recentSearches, now, started, pageVars,
                 causeVars, integrations, timers, integrationToast>>

\* The Integrations page, with every service and its timer, and the
\* navigation bar of a window that is taken through the paths.
NextShell ==
  \/ \E service \in Services : HandleConnect(service)
  \/ \E service \in Services : TimerFires(service)
  \/ \E path \in InputPaths : Visit(path)
  \/ ToggleMenu
  \/ \E href \in NavHrefs : MobileLink(href)

SpecShell == Init /\ [][NextShell]_vars

TypeOK ==
  /\ \A t \in Tabs : pc[t] \in {"idle", "awaitGet", "awaitPost"}
  /\ \A t \in Tabs : loading[t] = (pc[t] # "idle")
  /\ started \in 0..(IF MaxRecorded > MaxSearches THEN MaxRecorded ELSE MaxSearches)
  /\ now \in 0..(IF MaxRecorded > MaxClock THEN MaxRecorded ELSE MaxClock)
  /\ pageMounted \in BOOLEAN
  /\ causeLoading \in BOOLEAN
  /\ Len(recentSearches) <= RecentCap
  /\ Len(refreshes) <= MaxRefreshes
  /\ \A s \in Services :
       /\ integrations[s].connected \in BOOLEAN
       /\ integrations[s].loading \in BOOLEAN
       /\ integrations[s].loading <=> timers[s] # NoTimer
  /\ integrationToast[1] \in { "none", "Integration connected",
                               "Integration disconnected" }
  /\ integrationToast[2] \in Services \cup { "none" }
  /\ pathname \in InputPaths
  /\ isOpen \in BOOLEAN

(* ------------------------- reading the call log ------------------------ *)

\* the positions of the submitCaseQuery calls of the latest search of a tab
Submits(t) == { i \in 1..Len(calls[t]) : calls[t][i].api = "submitCaseQuery" }

\* the case number a logged call carries
KeyOf(c) == IF c.api = "getCaseDetails" THEN c.arg ELSE c.arg.case_number

\* the latest search of the tab has run to its end
Settled(t) == calls[t] # <<>> /\ pc[t] = "idle"

\* the lookup of the latest search resolved with a record / was answered 404
LookupHit(t) == calls[t] # <<>> /\ calls[t][1].state = "resolved"
LookupMiss(t) ==
  /\ calls[t] # <<>>
  /\ calls[t][1].state = "rejected"
  /\ calls[t][1].result.status = 404

SameCase(fd, gd) ==
  /\ fd.caseType = gd.caseType
  /\ fd.caseNumber = gd.caseNumber
  /\ fd.year = gd.year

\* k reads "{caseType} {caseNumber}/{year}", character by character
HasCanonicalForm(k, fd) ==
  LET a == Len(fd.caseType)
      n == Len(fd.caseNumber)
  IN /\ Len(k) = a + n + Len(fd.year) + 2
     /\ SubSeq(k, 1, a) = fd.caseType
     /\ k[a + 1] = " "
     /\ SubSeq(k, a + 2, a + n + 1) = fd.caseNumber
     /\ k[a + n + 2] = "/"
     /\ SubSeq(k, a + n + 3, Len(k)) = fd.year

(* ------------------------------- claims -------------------------------- *)

\* C1: every case number handleSearch passes to getCaseDetails or to
\* submitCaseQuery reads "{caseType} {caseNumber}/{year}" of the form the search
\* was started with, and two searches whose forms agree on caseType, caseNumber
\* and year pass the same key to both calls, whatever their courtName.
C1_CanonicalKey ==
  /\ \A t \in Tabs : \A i \in 1..Len(calls[t]) :
       HasCanonicalForm(KeyOf(calls[t][i]), closure[t].formData)
  /\ \A t \in Tabs : \A u \in Tabs :
       SameCase(closure[t].formData, closure[u].formData) =>
         \A i \in 1..Len(calls[t]) : \A j \in 1..Len(calls[u]) :
           KeyOf(calls[t][i]) = KeyOf(calls[u][j])

\* two searches of the same case under different courts, both past the lookup
C1_Witness ==
  \E t \in Tabs : \E u \in Tabs :
    /\ Submits(t) # {} /\ Submits(u) # {}
    /\ SameCase(closure[t].formData, closure[u].formData)
    /\ closure[t].formData.courtName # closure[u].formData.courtName

\* C2: when the lookup of a search resolves with a record whose success is
\* true, that record is what the search shows, unchanged, the search ends
\* there, no submitCaseQuery is called and the backend fetches nothing for it.
C2_CacheHit ==
  \A t \in Tabs :
    (LookupHit(t) /\ calls[t][1].result.success) =>
      /\ Len(calls[t]) = 1
      /\ Submits(t) = {}
      /\ pc[t] = "idle"
      /\ net[t] = NoReq
      /\ caseDetails[t] = calls[t][1].result
      /\ caseDetails[t].case_number = calls[t][1].arg
      /\ upserts[t] = 0

\* a search answered from the table after an earlier search stored the case
C2_Witness ==
  \E t \in Tabs :
    /\ LookupHit(t) /\ calls[t][1].result.success
    /\ Settled(t)
    /\ started >= 2

\* C3: when the lookup of a search finds no record (404), the search calls
\* submitCaseQuery with case_number the key it looked up and court_name the
\* court of the form it was started with, and the record that call returns
\* is what the search shows.
C3_MissPath ==
  \A t \in Tabs :
    LookupMiss(t) =>
      /\ Len(calls[t]) = 2
      /\ calls[t][2].api = "submitCaseQuery"
      /\ calls[t][2].arg.case_number = calls[t][1].arg
      /\ calls[t][2].arg.court_name = closure[t].formData.courtName
      /\ (calls[t][2].state = "pending" =>
            /\ pc[t] = "awaitPost"
            /\ net[t].method = "POST"
            /\ net[t].data = calls[t][2].arg)
      /\ (calls[t][2].state = "resolved" =>
            /\ pc[t] = "idle"
            /\ caseDetails[t] = calls[t][2].result)

\* a miss whose fetch returned a record, the court of the form edited meanwhile
C3_Witness ==
  \E t \in Tabs :
    /\ LookupMiss(t)
    /\ Settled(t)
    /\ calls[t][2].state = "resolved"
    /\ formData[t].courtName # closure[t].formData.courtName

\* C4: when the lookup of a search resolves with a stored record whose
\* success is false, the search goes on to call submitCaseQuery for the key.
C4_RetryStoredFailure ==
  \A t \in Tabs :
    (LookupHit(t) /\ ~calls[t][1].result.success) =>
      /\ Len(calls[t]) >= 2
      /\ calls[t][2].api = "submitCaseQuery"
      /\ calls[t][2].arg.case_number = calls[t][1].arg

\* the CaseIdentifier invariants: caseType of the enumerated set, caseNumber a
\* non-empty token of digits and letters, year four digits and not in the future
DigitChars == { Digit(d) : d \in 0..9 }
LetterChars == { "A","B","C","D","E","F","G","H","I","J","K","L","M",
                 "N","O","P","Q","R","S","T","U","V","W","X","Y","Z" }
DigitValue(ch) == CHOOSE d \in 0..9 : Digit(d) = ch
RECURSIVE NumberOf(_)
NumberOf(s) == IF s = <<>> THEN 0
               ELSE 10 * NumberOf(SubSeq(s, 1, Len(s) - 1)) + DigitValue(s[Len(s)])
ValidCaseIdentifier(fd) ==
  /\ fd.caseType \in CaseTypeOptions
  /\ fd.caseNumber # <<>>
  /\ \A i \in 1..Len(fd.caseNumber) : fd.caseNumber[i] \in DigitChars \cup LetterChars
  /\ Len(fd.year) = 4
  /\ \A i \in 1..Len(fd.year) : fd.year[i] \in DigitChars
  /\ NumberOf(fd.year) <= CurrentYear

\* C5: a search whose identifier breaks the CaseIdentifier invariants makes no
\* call to getCaseDetails or submitCaseQuery: every search that has made a call
\* or has a request in flight was started with a valid identifier.
C5_ValidationPrecedesAccess ==
  \A t \in Tabs :
    (calls[t] # <<>> \/ net[t] # NoReq) => ValidCaseIdentifier(closure[t].formData)

\* C6: two searches of the same key in flight at the same time, whose lookups
\* both found no record, never both have a submitCaseQuery outstanding.
C6_NoDuplicateConcurrentFetch ==
  \A t \in Tabs : \A u \in Tabs \ {t} :
    ~ /\ LookupMiss(t) /\ LookupMiss(u)
      /\ pc[t] = "awaitPost" /\ pc[u] = "awaitPost"
      /\ KeyOf(calls[t][2]) = KeyOf(calls[u][2])

C8_AtMostOneFetch ==
  \A t \in Tabs :
    /\ Cardinality(Submits(t)) <= 1
    /\ Len(calls[t]) <= 2

\* a search whose fetch failed and that ended there, with the error shown
C8_Witness ==
  \E t \in Tabs :
    /\ Settled(t)
    /\ Submits(t) # {}
    /\ calls[t][Len(calls[t])].state = "rejected"
    /\ error[t] # "null"

\* C9 as stated, for the searches that ended with a record (found by the
\* lookup, or returned by submitCaseQuery with success true or false): every
\* such search caused exactly one upsert into the table.
C9_ExactlyOneUpsert ==
  \A t \in Tabs :
    (Settled(t) /\ calls[t][Len(calls[t])].state = "resolved") => upserts[t] = 1

\* C9 amended: a search causes at most one upsert, and never more than it made
\* submitCaseQuery calls: none when its lookup resolves (the cache-hit path),
\* exactly one when its submitCaseQuery is answered with a record.
C9_AtMostOneUpsert ==
  \A t \in Tabs :
    /\ upserts[t] <= 1
    /\ upserts[t] <= Cardinality(Submits(t))
    /\ (LookupHit(t) => upserts[t] = 0)
    /\ ((Settled(t) /\ Submits(t) # {} /\ calls[t][Len(calls[t])].state = "resolved")
          => upserts[t] = 1)

\* the backend wrote the row, then the answer timed out at the client
C9_Witness ==
  \E t \in Tabs :
    /\ Settled(t)
    /\ Submits(t) # {}
    /\ calls[t][Len(calls[t])].state = "rejected"
    /\ upserts[t] = 1

\* C10: a submitCaseQuery of a search is issued only after the getCaseDetails
\* of the same search, for the same key, has resolved or rejected.
C10_LookupPrecedesWrite ==
  \A t \in Tabs :
    /\ \A i \in Submits(t) :
         /\ i > 1
         /\ calls[t][i - 1].api = "getCaseDetails"
         /\ calls[t][i - 1].state \in {"resolved", "rejected"}
         /\ calls[t][i - 1].arg = calls[t][i].arg.case_number
    /\ (net[t].method = "POST" =>
          /\ calls[t] # <<>>
          /\ calls[t][1].api = "getCaseDetails"
          /\ calls[t][1].state # "pending")

\* a submitCaseQuery on its way to the backend
C10_Witness ==
  \E t \in Tabs :
    /\ pc[t] = "awaitPost"
    /\ net[t].method = "POST"
    /\ net[t].state = "pending"

\* the fetch of the latest search failed: submitCaseQuery was rejected, or it
\* returned the record of a failed fetch
FetchFailed(t) ==
  /\ Settled(t)
  /\ Submits(t) # {}
  /\ \/ calls[t][Len(calls[t])].state = "rejected"
     \/ ~calls[t][Len(calls[t])].result.success

\* C11: when the fetch of a search fails, the search still ends with a record
\* as its result, with success false and a non-empty error message, and the
\* error state of the page stays unset.
C11_AdapterFailuresAreValues ==
  \A t \in Tabs :
    FetchFailed(t) =>
      /\ caseDetails[t] # Null
      /\ caseDetails[t].case_number = closure[t].fullCaseNumber
      /\ ~caseDetails[t].success
      /\ caseDetails[t].error_message # ""
      /\ error[t] = "null"

\* C12: when the lookup of a search fails for another reason than an absent
\* record (no answer, server error, timeout), the search ends there with the
\* error reported and no submitCaseQuery is called.
C12_StorageFailureAborts ==
  \A t \in Tabs :
    (calls[t] # <<>> /\ calls[t][1].state = "rejected"
       /\ calls[t][1].result.status # 404) =>
      /\ Submits(t) = {}
      /\ pc[t] = "idle"
      /\ error[t] # "null"

\* C13: the remote calls of a search have a bounded timeout, and every search
\* that was started comes to its end, with a result or with an error, whatever
\* the backend does.
C13_EverySearchCompletes ==
  /\ API_TIMEOUT > 0
  /\ \A t \in Tabs : (pc[t] # "idle") ~> (pc[t] = "idle" /\ ~loading[t])

\* a search that ended because its fetch timed out
C13_Witness ==
  \E t \in Tabs :
    /\ Settled(t)
    /\ Submits(t) # {}
    /\ calls[t][Len(calls[t])].state = "rejected"
    /\ calls[t][Len(calls[t])].result.message = "timeout of 10000ms exceeded"
    /\ ~loading[t]

(* ------------------------------ C14 ----------------------------------- *)

NewestFirst(s) == \A i, j \in 1..Len(s) : i < j => s[i].id >= s[j].id

\* the step in which the handleSearch of tab t ends without an error, which
\* is the step that records the search
Records(t) == pc[t] # "idle" /\ pc'[t] = "idle" /\ error'[t] = "null"

\* C14: after any sequence of searches, deletions and clear-all the stored
\* list has at most 10 entries, newest first; a search that is recorded goes
\* in front of the entries stored before it, and when the list is full the
\* entry that leaves it is the last one, the oldest.
C14_CappedNewestFirst ==
  /\ [](Len(recentSearches) <= RecentCap /\ NewestFirst(recentSearches))
  /\ [][\A t \in Tabs : Records(t) =>
          /\ recentSearches' # <<>>
          /\ recentSearches'[1] = newSearch(closure[t].formData, now')
          /\ Tail(recentSearches') = Take(recentSearches, RecentCap - 1)]_vars

\* the list is full, holds the searches 2..11 and has lost search 1
C14_Witness ==
  /\ Len(recentSearches) = RecentCap
  /\ recentSearches[1].id = RecentCap + 1
  /\ recentSearches[RecentCap].id = 2
  /\ \A i \in 1..(RecentCap - 1) : recentSearches[i].id = recentSearches[i + 1].id + 1

(* ------------------------------ C15 ----------------------------------- *)

Items(rows) == [i \in 1..Len(rows) |-> rows[i].item]

\* f occurs in s as a run of consecutive characters
IsSubstring(f, s) ==
  \E pre \in 0..Len(s) : \E post \in pre..Len(s) : SubSeq(s, pre + 1, post) = f

\* C15: whatever is typed into the case-number filter, the rows on the screen
\* are the rows received, in the order received, as with an empty filter; a
\* row is flagged exactly when the filter is non-empty and occurs in its case
\* number; the request carries court_name, date and limit and never the
\* filter, and typing the filter neither sends a request nor changes the rows.
C15_FilterOnlyFlags ==
  /\ [](/\ Items(ShownRows) = Items(Render(causeListData, <<>>))
        /\ Items(ShownRows) = causeListData
        /\ \A i \in 1..Len(ShownRows) :
             ShownRows[i].isHighlighted <=>
               /\ causeFormData.caseNumber # <<>>
               /\ IsSubstring(causeFormData.caseNumber, causeListData[i].case_number)
        /\ causeNet # NoReq =>
             DOMAIN causeNet.params = {"court_name", "date", "limit"})
  /\ [][causeFormData'.caseNumber # causeFormData.caseNumber =>
          UNCHANGED <<causeNet, causeListData, causeTable>>]_vars

\* rows are on the screen under a filter that matches some and not others
C15_Witness ==
  /\ causeFormData.caseNumber # <<>>
  /\ \E i, j \in 1..Len(ShownRows) :
       ShownRows[i].isHighlighted /\ ~ShownRows[j].isHighlighted

(* ------------------------------ C16 ----------------------------------- *)

\* C16: the rows on the screen are in hearing-time order, ascending, the rows
\* without a hearing time after all the others, and rows of one hearing time
\* in ascending order of their case numbers.
C16_ShownInOrder ==
  \A i, j \in 1..Len(ShownRows) :
    i < j =>
      LET a == ShownRows[i].item
          b == ShownRows[j].item
      IN /\ a.hearing_time = NoTime => b.hearing_time = NoTime
         /\ (a.hearing_time # NoTime /\ b.hearing_time # NoTime) =>
              ~StrLess(b.hearing_time, a.hearing_time)
         /\ a.hearing_time = b.hearing_time =>
              ~StrLess(b.case_number, a.case_number)

\* the screen shows a row without a time, two rows of one time and a row that
\* was stored after a row it is shown before
C16_Witness ==
  /\ \E i \in 1..Len(ShownRows) : ShownRows[i].item.hearing_time = NoTime
  /\ \E i, j \in 1..Len(ShownRows) :
       /\ i < j
       /\ ShownRows[i].item.hearing_time # NoTime
       /\ ShownRows[i].item.hearing_time = ShownRows[j].item.hearing_time
  /\ \E i, j \in 1..Len(ShownRows) :
       i < j /\ ShownRows[i].item.id > ShownRows[j].item.id

(* ------------------------------ C17 ----------------------------------- *)

\* C17: no two rows of the cause-list table have the same (caseNumber, date,
\* courtName), and a refresh that gets the listing an earlier refresh of the
\* court and the date got writes nothing.
C17_NoDuplicateRows ==
  /\ \A i, j \in 1..Len(causeTable) :
       i # j => DedupKey(causeTable[i]) # DedupKey(causeTable[j])
  /\ \A j, k \in 1..Len(refreshes) :
       (/\ j < k
        /\ refreshes[j].court_name = refreshes[k].court_name
        /\ refreshes[j].date = refreshes[k].date
        /\ refreshes[j].listing = refreshes[k].listing) => refreshes[k].written = 0

\* one listing was written for one court and date twice
C17_Witness ==
  /\ Len(refreshes) >= 2
  /\ refreshes[1].court_name = refreshes[2].court_name
  /\ refreshes[1].date = refreshes[2].date
  /\ refreshes[1].listing = refreshes[2].listing
  /\ Len(refreshes[1].listing) > 0
  /\ Len(causeTable) = Len(refreshes[1].listing)

(* ------------------------------ C18 ----------------------------------- *)

\* the latest search of tab t ended with a record that says the fetch failed
ReturnedFailure(t) ==
  /\ Settled(t)
  /\ calls[t][Len(calls[t])].state = "resolved"
  /\ ~calls[t][Len(calls[t])].result.success

\* the latest search of tab t ended with a rejected request
RequestError(t) == Settled(t) /\ calls[t][Len(calls[t])].state = "rejected"

\* C18: a search that returns a record with success = false shows the error
\* of that record, a search whose request fails shows the error card, a
\* check of the fields that fails before any search has made no request and
\* shows neither card, so that the screens of the three differ.
C18_OutcomesDistinguished ==
  \A t \in Tabs :
    /\ ReturnedFailure(t) =>
         /\ calls[t][Len(calls[t])].result.error_message \in Displayed(t).errorCard
         /\ ~Displayed(t).searching
    /\ RequestError(t) => Displayed(t).errorCard # {}
    /\ (Displayed(t).toast = "Missing Information" /\ started = 0) =>
         /\ net[t] = NoReq /\ calls[t] = <<>>
         /\ Displayed(t).errorCard = {} /\ ~Displayed(t).detailsCard.shown

(* ------------------------------ C19 ----------------------------------- *)

\* a step of the RecentSearches page: its mount or one of its handlers
PageStep == pageVars' # pageVars

\* C19: a step of the RecentSearches page sends no request and leaves every
\* request, call log and table of the backend as it is; and the stored list
\* changes only in a step of the page or in the step that ends a search
\* without an error, which puts the entry of that search in front.
C19_RecentListIsClientLocal ==
  [][/\ PageStep => UNCHANGED <<net, calls, upserts, store, causeNet, causeTable,
                                refreshes>>
     /\ (recentSearches' # recentSearches /\ ~PageStep) =>
          \E t \in Tabs :
            /\ Records(t)
            /\ recentSearches' =
                 Take(<<newSearch(closure[t].formData, now')>> \o recentSearches,
                      RecentCap)]_vars

\* a stored search was re-run from the page and the history cleared after
\* it, with the record of the case still in the table of the backend
C19_Witness ==
  /\ location # Null
  /\ pageToast = "History Cleared"
  /\ recentSearches = <<>>
  /\ store # <<>>
  /\ started >= 1

(* ------------------------------ C20 ----------------------------------- *)

Entries(s) == { s[i] : i \in 1..Len(s) }

\* C20: an entry of the stored list leaves it only when handleDelete is
\* called with its id, when handleClearAll is called, or when the list is
\* full and the entry is its last and a search is recorded.
C20_EntryStaysUntilRemoved ==
  [][\A e \in Entries(recentSearches) :
       e \notin Entries(recentSearches') =>
         \/ /\ pageToast' = "Search Deleted"
            /\ pageRecentSearches' = Keep(pageRecentSearches, e.id)
            /\ pageRecentSearches' # pageRecentSearches
         \/ /\ pageToast' = "History Cleared"
            /\ recentSearches' = <<>>
            /\ pageRecentSearches # <<>> /\ pageRecentSearches' = <<>>
         \/ /\ \E t \in Tabs : Records(t)
            /\ Len(recentSearches) = RecentCap
            /\ e = recentSearches[RecentCap]]_vars

(* ------------------------------ C21 ----------------------------------- *)

\* the step in which the handleSearch of tab t ends with a record: the lookup
\* or the submit has resolved
EndsWithResult(t) ==
  /\ pc[t] # "idle" /\ pc'[t] = "idle"
  /\ calls'[t][Len(calls'[t])].state = "resolved"

\* the step in which the handleSearch of tab t ends with both requests rejected
EndsInFailure(t) ==
  /\ pc[t] # "idle" /\ pc'[t] = "idle"
  /\ calls'[t][Len(calls'[t])].state = "rejected"

\* the step in which handleSearch returns at the check of the fields
EndsAtValidation(t) ==
  /\ pc[t] = "idle" /\ pc'[t] = "idle"
  /\ toast'[t] = "Missing Information" /\ toast[t] # "Missing Information"

\* C21: a search that ends with a record puts exactly one entry, its own, in
\* front of the stored list; a search that ends with both requests rejected
\* or at the check of the fields writes no entry and leaves the record on
\* the screen as it was; and the list of one tab without the history page
\* changes in no other step.
C21_RecordedIffResult ==
  [][/\ \A t \in Tabs :
          /\ EndsWithResult(t) =>
               /\ recentSearches' =
                    Take(<<newSearch(closure[t].formData, now')>> \o recentSearches,
                         RecentCap)
               /\ caseDetails'[t] = calls'[t][Len(calls'[t])].result
          /\ EndsInFailure(t) =>
               /\ recentSearches' = recentSearches
               /\ caseDetails'[t] = caseDetails[t]
          /\ EndsAtValidation(t) =>
               /\ recentSearches' = recentSearches
               /\ caseDetails'[t] = caseDetails[t]
     /\ recentSearches' # recentSearches => \E t \in Tabs : EndsWithResult(t)]_vars

\* a search with a result was recorded and shown, and the search after it
\* failed: one entry is stored and the record is still on the screen
C21_Witness ==
  \E t \in Tabs :
    /\ Settled(t)
    /\ calls[t][Len(calls[t])].state = "rejected"
    /\ started = 2
    /\ Len(recentSearches) = 1
    /\ caseDetails[t] # Null
    /\ error[t] # "null"

(* ------------------------------ C22 ----------------------------------- *)

\* the step in which CauseList.handleSearch returns at its check of the fields
CauseEndsAtValidation ==
  causeToast' = "Missing Information" /\ causeToast # "Missing Information"

\* C22: in CourtSearch and in CauseList the loading flag is set exactly while
\* a request of the component is out: from the step that sends it to the step
\* that takes its answer or its failure; a handleSearch that returns at the
\* check of the fields finds the flag down and leaves it down; and while the
\* flag is up no step starts another search of the component.
C22_LoadingBracketsRequest ==
  /\ [](/\ \A t \in Tabs : loading[t] <=> net[t] # NoReq
        /\ causeLoading <=> causeNet # NoReq)
  /\ [][/\ \A t \in Tabs :
             /\ EndsAtValidation(t) => ~loading[t] /\ ~loading'[t]
             /\ (EndsWithResult(t) \/ EndsInFailure(t)) => loading[t] /\ ~loading'[t]
             /\ loading[t] =>
                  /\ closure'[t] = closure[t]
                  /\ Len(calls'[t]) >= Len(calls[t])
                  /\ calls'[t][1].arg = calls[t][1].arg
        /\ CauseEndsAtValidation => ~causeLoading /\ ~causeLoading'
        /\ causeLoading =>
             \/ causeNet' = NoReq /\ ~causeLoading'
             \/ causeNet'.params = causeNet.params /\ causeLoading']_vars

\* both components have had a search that failed and a flag that came down,
\* and CourtSearch is busy with its next search
C22_Witness ==
  /\ started = 2
  /\ loading[TheTab]
  /\ error[TheTab] = "null"
  /\ toast[TheTab] = "Search Failed"
  /\ ~causeLoading
  /\ causeError # "null"

(* ------------------------------ C23 ----------------------------------- *)

\* C23: while a search is running the error is null; once it has settled the
\* error is set exactly when its last request, the lookup or the submit
\* after a rejected lookup, was rejected, and then it is the text of that
\* rejection; after a search that ended with a record the error is null.
C23_ErrorOfLatestSearch ==
  \A t \in Tabs :
    /\ pc[t] # "idle" => error[t] = "null"
    /\ Settled(t) =>
         LET last == calls[t][Len(calls[t])]
         IN /\ error[t] # "null" <=> last.state = "rejected"
            /\ last.state = "rejected" =>
                 /\ \A i \in 1..Len(calls[t]) : calls[t][i].state = "rejected"
                 /\ error[t] = ErrorText(last.result)
    /\ calls[t] = <<>> => error[t] = "null"

\* a search failed and the search after it ended with a record: the error of
\* the first is gone
C23_Witness ==
  \E t \in Tabs :
    /\ Settled(t)
    /\ calls[t][Len(calls[t])].state = "resolved"
    /\ started = 2
    /\ Len(recentSearches) = 1
    /\ error[t] = "null"

(* ------------------------------ C24 ----------------------------------- *)

\* C24: the entry a search writes names the case of the key the search sent:
\* its caseType, caseNumber and year are those the search started with, and
\* they form the key of every request of the search, whatever the form holds
\* by the time the search ends.
C24_EntryNamesTheKeySent ==
  [][\A t \in Tabs :
       EndsWithResult(t) =>
         LET e == recentSearches'[1]
         IN /\ e.caseType = closure[t].formData.caseType
            /\ e.caseNumber = closure[t].formData.caseNumber
            /\ e.year = closure[t].formData.year
            /\ \A i \in 1..Len(calls'[t]) : KeyOf(calls'[t][i]) = fullCaseNumber(e)]_vars

\* a search has been recorded under the key it sent while the form of the
\* tab holds another case number
C24_Witness ==
  \E t \in Tabs :
    /\ Settled(t)
    /\ calls[t][Len(calls[t])].state = "resolved"
    /\ recentSearches # <<>>
    /\ fullCaseNumber(recentSearches[1]) = KeyOf(calls[t][1])
    /\ recentSearches[1].caseNumber # formData[t].caseNumber
    /\ started = 1

(* ------------------------------ C25 ----------------------------------- *)

\* the identifier is one the form can hold: a case type of the list, none of
\* which has a space in it, and a year of four digits
ValidKeyIdentifier(fd) ==
  /\ fd.caseType \in CaseTypeOptions
  /\ \A i \in 1..Len(fd.caseType) : fd.caseType[i] # " "
  /\ Len(fd.year) = 4
  /\ \A i \in 1..4 : fd.year[i] \in DigitChars

\* C25: two searches whose identifiers are valid and differ in the case type,
\* the case number or the year send different keys.
C25_KeyIsInjective ==
  \A t, u \in Tabs :
    (/\ calls[t] # <<>> /\ calls[u] # <<>>
     /\ ValidKeyIdentifier(closure[t].formData)
     /\ ValidKeyIdentifier(closure[u].formData)
     /\ \/ closure[t].formData.caseType # closure[u].formData.caseType
        \/ closure[t].formData.caseNumber # closure[u].formData.caseNumber
        \/ closure[t].formData.year # closure[u].formData.year)
      => KeyOf(calls[t][1]) # KeyOf(calls[u][1])

\* two searches are out whose case numbers differ only by what follows a
\* slash, the one holding the year of the other's key
C25_Witness ==
  /\ calls["tabA"] # <<>> /\ calls["tabB"] # <<>>
  /\ ValidKeyIdentifier(closure["tabA"].formData)
  /\ ValidKeyIdentifier(closure["tabB"].formData)
  /\ closure["tabA"].formData.caseNumber = <<"5">>
  /\ closure["tabB"].formData.caseNumber = <<"5","/">> \o toString(CurrentYear)
  /\ closure["tabA"].formData.caseType = closure["tabB"].formData.caseType
  /\ KeyOf(calls["tabA"][1]) # KeyOf(calls["tabB"][1])

(* ------------------------------ C26 ----------------------------------- *)

\* the step in which handleDelete(id) has run on the page
Deletes(id) ==
  /\ pageMounted /\ pageMounted'
  /\ id \in ShownIds
  /\ pageToast' = "Search Deleted"
  /\ pageRecentSearches' # pageRecentSearches
  /\ \A i \in 1..Len(pageRecentSearches') : pageRecentSearches'[i].id # id

\* C26: handleDelete(id) takes out of the list on the screen and out of the
\* stored list the entries whose id is id and no other, the rest staying in
\* their order, and a list without the id is left as it is.
C26_DeleteRemovesOnlyTheId ==
  [][\A id \in ShownIds :
       Deletes(id) =>
         /\ pageRecentSearches' = Keep(pageRecentSearches, id)
         /\ recentSearches' = Keep(recentSearches, id)
         /\ Keep(pageRecentSearches', id) = pageRecentSearches'
         /\ Keep(recentSearches', id) = recentSearches']_vars

(* ------------------------------ C27 ----------------------------------- *)

\* the step in which handleConnect(service) has run
Connects(service) == timers[service] = NoTimer /\ timers'[service] # NoTimer

\* the step in which the timer of the service has fired
Fires(service) == timers[service] # NoTimer /\ timers'[service] = NoTimer

\* C27: handleConnect(service) sets loading of the service and leaves its
\* connected flag; the timer of the service flips its connected flag and
\* ends its loading; the flags of a service change in no step but its own,
\* whatever the other services and their timers do.
C27_OnlyTheServiceChanges ==
  [][\A service \in Services :
       /\ Connects(service) =>
            /\ ~integrations[service].loading
            /\ integrations'[service] =
                 [connected |-> integrations[service].connected, loading |-> TRUE]
       /\ Fires(service) =>
            /\ integrations[service].loading
            /\ integrations'[service] =
                 [connected |-> ~integrations[service].connected, loading |-> FALSE]
       /\ ~(Connects(service) \/ Fires(service)) =>
            integrations'[service] = integrations[service]]_vars

\* googleDrive has been connected while the other two were connecting, and
\* n8n, clicked after googleCalendar, has fired before it
C27_Witness ==
  /\ integrations["googleDrive"] = [connected |-> TRUE, loading |-> FALSE]
  /\ integrations["googleCalendar"] = [connected |-> FALSE, loading |-> TRUE]
  /\ integrations["n8n"] = [connected |-> TRUE, loading |-> TRUE]
  /\ timers["n8n"] # NoTimer
  /\ timers["n8n"].integrations["googleCalendar"].loading
  /\ ~timers["n8n"].integrations["googleDrive"].connected

(* ------------------------------ C28 ----------------------------------- *)

\* s is prefix followed by some rest
BeginsWith(s, prefix) ==
  \E n \in 0..Len(s) : SubSeq(s, 1, n) = prefix

\* C28: an item of the navigation bar is active exactly when the pathname
\* begins with its href; Home is active on every path, and on the paths of
\* the court routes Home and Court Tracker are both active.
C28_ActiveIffPrefix ==
  /\ \A href \in NavHrefs : isActive(href) <=> BeginsWith(pathname, href)
  /\ HomePath \in ActiveItems
  /\ (pathname \in RoutePaths /\ pathname # HomePath) => ActiveItems = NavHrefs

\* the window is on /court/integrations, after a service has been connected
\* there, and both items are drawn active
C28_Witness ==
  /\ pathname = CourtPath \o <<"/", "i", "n", "t", "e", "g", "r", "a", "t", "i", "o", "n", "s">>
  /\ integrations["n8n"].connected
  /\ isActive(HomePath) /\ isActive(CourtPath)
  /\ ActiveItems = { HomePath, CourtPath }

====
